---- MODULE Spec2Model ----
(***************************************************************************)
(* The four GraphQL mutations of crm/schema.py (CreateCustomer,            *)
(* BulkCreateCustomers, CreateProduct, CreateOrder) over the three tables  *)
(* they write.  A row's primary key is its position in the table: the      *)
(* mutations only ever append.  Money is counted in whole units.           *)
(***************************************************************************)
EXTENDS Integers, Sequences, FiniteSets, TLC

VARIABLES
    customers,    \* table Customer: sequence of [name, email, phone]
    products,     \* table Product:  sequence of [name, price, stock]
    orders,       \* table Order:    sequence of [customer, order_date, total_amount, products]
    uniqueEmail,  \* does the table Customer carry a unique index on email?
    call          \* per client: the mutation in flight, its arguments, locals and result

vars == <<customers, products, orders, uniqueEmail, call>>

(***************************************************************************)
(* Bounds of the model.                                                    *)
(***************************************************************************)
NumProcs     == 2   \* concurrent clients
MaxCustomers == 3   \* rows of Customer
MaxBatch     == 2   \* records of one BulkCreateCustomers call
MaxProducts  == 2   \* rows of Product
MaxOrders    == 1   \* rows of Order
MaxIds       == 2   \* length of one product_ids list

Procs == 1..NumProcs

(***************************************************************************)
(* Optional arguments: {} when the argument is omitted, {v} when given.    *)
(***************************************************************************)
Opt(S) == {{}} \cup {{v} : v \in S}

Given(o) == CHOOSE v \in o : TRUE

(***************************************************************************)
(* The phone pattern ^(\+?\d{10,15}|\d{3}-\d{3}-\d{4})$ under re.match.    *)
(* A phone is a sequence of one-character strings.                         *)
(***************************************************************************)
MinDigits == 10
MaxDigits == 15

Digits == <<"0", "1", "2", "3", "4", "5", "6", "7", "8", "9">>

IsDigit(c) == \E i \in 1..Len(Digits) : Digits[i] = c

AllDigits(s) == \A i \in 1..Len(s) : IsDigit(s[i])

\* \+?\d{10,15}
MatchIntl(s) ==
    LET t == IF Len(s) > 0 /\ s[1] = "+" THEN Tail(s) ELSE s
    IN  Len(t) >= MinDigits /\ Len(t) <= MaxDigits /\ AllDigits(t)

\* \d{3}-\d{3}-\d{4}
MatchDashed(s) ==
    /\ Len(s) = 12
    /\ AllDigits(SubSeq(s, 1, 3))
    /\ s[4] = "-"
    /\ AllDigits(SubSeq(s, 5, 7))
    /\ s[8] = "-"
    /\ AllDigits(SubSeq(s, 9, 12))

\* "$" matches at the end of the string and also just before a final newline.
DollarEnds(s) ==
    {s} \cup (IF Len(s) > 0 /\ s[Len(s)] = "\n" THEN {SubSeq(s, 1, Len(s) - 1)} ELSE {})

PhoneMatchNoAnchor(s) == \E i \in 0..Len(s) : MatchIntl(SubSeq(s, 1, i)) \/ MatchDashed(SubSeq(s, 1, i))

PhoneMatch(s) == \E t \in DollarEnds(s) : MatchIntl(t) \/ MatchDashed(t)

(***************************************************************************)
(* Inputs.                                                                 *)
(***************************************************************************)
DigitRun(n) == [i \in 1..n |-> Digits[((i - 1) % 10) + 1]]

Dashed(a, b, c) == DigitRun(a) \o <<"-">> \o DigitRun(b) \o <<"-">> \o DigitRun(c)

PhoneSamples ==
    { <<>>,
      DigitRun(MinDigits),
      <<"+">> \o DigitRun(MaxDigits),
      Dashed(3, 3, 4),
      DigitRun(MinDigits) \o <<"\n">>,
      DigitRun(MinDigits - 1),
      DigitRun(MaxDigits + 1),
      Dashed(3, 4, 3),
      <<"+">> \o Dashed(3, 3, 4),
      DigitRun(MinDigits) \o <<"x">> }

BulkPhoneSamples == { <<>>, DigitRun(MinDigits), DigitRun(MinDigits - 1) }

Names == {"Ann"}

GoodEmails == {"ann@x.io", "bob@x.io"}

Emails == GoodEmails \cup {"not-an-email"}

\* django.core.validators.validate_email: raises ValidationError or returns.
ValidEmail(e) == e \in GoodEmails

CustomerInputs(phones) == [name : Names, email : Emails, phone : Opt(phones)]

(***************************************************************************)
(* Store access.                                                           *)
(***************************************************************************)
\* Customer.objects.filter(email=email).exists()
EmailExists(table, email) == \E i \in 1..Len(table) : table[i].email = email

\* phone or ""
PhoneOrEmpty(phone) == IF phone = {} THEN <<>> ELSE Given(phone)

\* if phone: ... not re.match(...)
BadPhone(phone) == phone # {} /\ Given(phone) # <<>> /\ ~PhoneMatch(Given(phone))

\* Customer(name=..., email=..., phone=phone or "")
CustomerRow(c) == [name |-> c.name, email |-> c.email, phone |-> PhoneOrEmpty(c.phone)]

\* INSERT of one row; the unique index, when the table has one, refuses a
\* second row with the same email (IntegrityError).
InsertRefused(table, row) == uniqueEmail /\ EmailExists(table, row.email)

(***************************************************************************)
(* Calls.                                                                  *)
(***************************************************************************)
None == [none |-> TRUE]

Idle == [pc |-> "idle", op |-> "none", args |-> None, loc |-> None, out |-> None]

Failure(msg) == [outcome |-> "returned", success |-> FALSE, message |-> msg, entity |-> {}]

Success(msg, pk) == [outcome |-> "returned", success |-> TRUE, message |-> msg, entity |-> {pk}]

\* an exception that leaves mutate(): graphene reports it, no payload is returned
Raised(error) == [outcome |-> "raised", error |-> error]

\* what a failing store operation raises: django.db.DatabaseError, and its
\* subclass IntegrityError when the unique index refuses a row
StoreErrors == {"DatabaseError", "IntegrityError"}

InsertError(table, row) == IF InsertRefused(table, row) THEN "IntegrityError" ELSE "DatabaseError"

AllIdle == \A p \in Procs : call[p].pc = "idle"

Active == Cardinality({p \in Procs : call[p].pc # "idle"})

Begin(p, op, args) ==
    /\ call[p].pc = "idle"
    /\ call' = [call EXCEPT ![p] = [pc |-> "start", op |-> op, args |-> args,
                                    loc |-> None, out |-> None]]
    /\ UNCHANGED <<customers, products, orders, uniqueEmail>>

Finish(p, out) == call' = [call EXCEPT ![p].pc = "done", ![p].out = out]

\* the client takes the response; the call is over
Return(p) ==
    /\ call[p].pc = "done"
    /\ call' = [call EXCEPT ![p] = Idle]
    /\ UNCHANGED <<customers, products, orders, uniqueEmail>>

(***************************************************************************)
(* CreateCustomer.mutate                                                   *)
(***************************************************************************)
SubmitCreateCustomer(p, phones) ==
    /\ Len(customers) + Active < MaxCustomers
    /\ \E c \in CustomerInputs(phones) : Begin(p, "CreateCustomer", c)

\* lines 24-31 without the try/except of lines 23 and 37
CreateCustomerCheckNoCatch(p) ==
    /\ call[p].pc = "start"
    /\ call[p].op = "CreateCustomer"
    /\ LET a == call[p].args
       IN  IF ~ValidEmail(a.email)
           THEN Finish(p, Raised("ValidationError"))
           ELSE \E fault \in BOOLEAN :
                   IF fault
                   THEN Finish(p, Raised("DatabaseError"))
                   ELSE IF EmailExists(customers, a.email)
                   THEN Finish(p, Failure("Email already exists"))
                   ELSE IF BadPhone(a.phone)
                   THEN Finish(p, Failure("Invalid phone format"))
                   ELSE call' = [call EXCEPT ![p].pc = "save"]
    /\ UNCHANGED <<customers, products, orders, uniqueEmail>>

\* lines 24-31: validate_email, the existence check, the phone check; the
\* existence check is a query, and a store error in it is not a ValidationError
CreateCustomerCheck(p) ==
    /\ call[p].pc = "start"
    /\ call[p].op = "CreateCustomer"
    /\ LET a == call[p].args
       IN  IF ~ValidEmail(a.email)
           THEN Finish(p, Failure("Invalid email format"))
           ELSE \E fault \in BOOLEAN :
                   IF fault
                   THEN Finish(p, Raised("DatabaseError"))
                   ELSE IF EmailExists(customers, a.email)
                   THEN Finish(p, Failure("Email already exists"))
                   ELSE IF BadPhone(a.phone)
                   THEN Finish(p, Failure("Invalid phone format"))
                   ELSE call' = [call EXCEPT ![p].pc = "save"]
    /\ UNCHANGED <<customers, products, orders, uniqueEmail>>

\* lines 33-36 with update_or_create(email=...) in place of save()
CreateCustomerSaveUpsert(p) ==
    /\ call[p].pc = "save"
    /\ call[p].op = "CreateCustomer"
    /\ \E fault \in BOOLEAN :
          LET row  == CustomerRow(call[p].args)
              same == {i \in 1..Len(customers) : customers[i].email = row.email}
          IN  IF fault
              THEN /\ Finish(p, Raised("DatabaseError"))
                   /\ UNCHANGED customers
              ELSE IF same # {}
              THEN LET i == CHOOSE i \in same : TRUE
                   IN  /\ customers' = [customers EXCEPT ![i] = row]
                       /\ Finish(p, Success("Customer created successfully", i))
              ELSE /\ customers' = Append(customers, row)
                   /\ Finish(p, Success("Customer created successfully", Len(customers) + 1))
    /\ UNCHANGED <<products, orders, uniqueEmail>>

\* lines 33-36: customer.save() and the result; a store error is not a
\* ValidationError, so the except clause does not catch it
CreateCustomerSave(p) ==
    /\ call[p].pc = "save"
    /\ call[p].op = "CreateCustomer"
    /\ \E fault \in BOOLEAN :
          LET row == CustomerRow(call[p].args)
          IN  IF fault \/ InsertRefused(customers, row)
              THEN /\ Finish(p, Raised(InsertError(customers, row)))
                   /\ UNCHANGED customers
              ELSE /\ customers' = Append(customers, row)
                   /\ Finish(p, Success("Customer created successfully", Len(customers) + 1))
    /\ UNCHANGED <<products, orders, uniqueEmail>>

(***************************************************************************)
(* BulkCreateCustomers.mutate                                              *)
(***************************************************************************)
Batches == UNION {[1..n -> CustomerInputs(BulkPhoneSamples)] : n \in 0..MaxBatch}

SubmitBulkCreateCustomers(p) ==
    \E batch \in Batches :
        /\ Len(customers) + Len(batch) <= MaxCustomers
        /\ Begin(p, "BulkCreateCustomers", [customers |-> batch])

\* f"{c.email}: <reason>"
ErrorLine(email, reason) == email \o ": " \o reason

\* one pass of the for loop, lines 60-74
ScanRecordAbort(acc, c, table) ==
    IF acc.errors # <<>>
    THEN acc
    ELSE IF ~ValidEmail(c.email)
    THEN [acc EXCEPT !.errors = Append(@, ErrorLine(c.email, "Invalid email format"))]
    ELSE IF EmailExists(table, c.email)
    THEN [acc EXCEPT !.errors = Append(@, ErrorLine(c.email, "Email already exists"))]
    ELSE IF BadPhone(c.phone)
    THEN [acc EXCEPT !.errors = Append(@, ErrorLine(c.email, "Invalid phone format"))]
    ELSE [acc EXCEPT !.created = Append(@, CustomerRow(c))]

ScanRecord(acc, c, table) ==
    IF ~ValidEmail(c.email)
    THEN [acc EXCEPT !.errors = Append(@, ErrorLine(c.email, "Invalid email format"))]
    ELSE IF EmailExists(table, c.email)
    THEN [acc EXCEPT !.errors = Append(@, ErrorLine(c.email, "Email already exists"))]
    ELSE IF BadPhone(c.phone)
    THEN [acc EXCEPT !.errors = Append(@, ErrorLine(c.email, "Invalid phone format"))]
    ELSE [acc EXCEPT !.created = Append(@, CustomerRow(c))]

\* the for loop, lines 56-74, over the first n records
RECURSIVE Scan(_, _, _)
Scan(batch, n, table) ==
    IF n = 0
    THEN [created |-> <<>>, errors |-> <<>>]
    ELSE ScanRecord(Scan(batch, n - 1, table), batch[n], table)

BulkLocals(acc) ==
    [created |-> acc.created, errors |-> acc.errors, tx |-> <<>>, base |-> Len(customers)]

\* lines 56-76: the loop, then the transaction is opened; a store error in the
\* existence query of record k is not a ValidationError and leaves mutate()
BulkValidate(p) ==
    /\ call[p].pc = "start"
    /\ call[p].op = "BulkCreateCustomers"
    /\ LET batch == call[p].args.customers
       IN  \/ call' = [call EXCEPT ![p].pc = "write",
                                   ![p].loc = BulkLocals(Scan(batch, Len(batch), customers))]
           \/ \E k \in 1..Len(batch) :
                 /\ ValidEmail(batch[k].email)
                 /\ call' = [call EXCEPT ![p].pc = "done",
                                         ![p].loc = BulkLocals(Scan(batch, k - 1, customers)),
                                         ![p].out = Raised("DatabaseError")]
    /\ UNCHANGED <<customers, products, orders, uniqueEmail>>

\* line 77 without line 76: each row is committed as it is written
BulkInsertAutocommit(p) ==
    /\ call[p].pc = "write"
    /\ call[p].op = "BulkCreateCustomers"
    /\ Len(call[p].loc.tx) < Len(call[p].loc.created)
    /\ \E fault \in BOOLEAN :
          LET l   == call[p].loc
              row == l.created[Len(l.tx) + 1]
          IN  IF fault \/ InsertRefused(customers, row)
              THEN /\ call' = [call EXCEPT ![p].pc = "done",
                                           ![p].out = Raised(InsertError(customers, row))]
                   /\ UNCHANGED customers
              ELSE /\ call' = [call EXCEPT ![p].loc.tx = Append(@, row)]
                   /\ customers' = Append(customers, row)
    /\ UNCHANGED <<products, orders, uniqueEmail>>

\* line 77 inside line 76: the next row of bulk_create goes into the open
\* transaction; a store error rolls the transaction back and leaves mutate()
BulkInsert(p) ==
    /\ call[p].pc = "write"
    /\ call[p].op = "BulkCreateCustomers"
    /\ Len(call[p].loc.tx) < Len(call[p].loc.created)
    /\ \E fault \in BOOLEAN :
          LET l   == call[p].loc
              row == l.created[Len(l.tx) + 1]
          IN  IF fault \/ InsertRefused(customers \o l.tx, row)
              THEN call' = [call EXCEPT ![p].pc = "done",
                                        ![p].out = Raised(InsertError(customers \o l.tx, row)),
                                        ![p].loc.tx = <<>>]
              ELSE call' = [call EXCEPT ![p].loc.tx = Append(@, row)]
    /\ UNCHANGED <<customers, products, orders, uniqueEmail>>

\* lines 76-79: the transaction commits and the result is returned
BulkCommit(p) ==
    /\ call[p].pc = "write"
    /\ call[p].op = "BulkCreateCustomers"
    /\ Len(call[p].loc.tx) = Len(call[p].loc.created)
    /\ customers' = customers \o call[p].loc.tx
    /\ Finish(p, [outcome |-> "returned", created_customers |-> call[p].loc.created,
                  errors |-> call[p].loc.errors])
    /\ UNCHANGED <<products, orders, uniqueEmail>>

(***************************************************************************)
(* CreateProduct.mutate                                                    *)
(***************************************************************************)
ProductNames == {"pen"}

GoodPrices == {10, 15}

ProductInputs == [name : ProductNames, price : GoodPrices \cup {0, -5}, stock : Opt({-1, 3})]

SubmitCreateProduct(p) ==
    /\ Len(products) < MaxProducts
    /\ \E a \in ProductInputs : Begin(p, "CreateProduct", a)

\* stock=0 in the signature
StockOrDefault(stock) == IF stock = {} THEN 0 ELSE Given(stock)

\* lines 95-98, the two checks in the order stock, price
ProductErrorStockFirst(price, stock) ==
    IF stock < 0 THEN {"Stock cannot be negative"}
    ELSE IF price <= 0 THEN {"Price must be positive"}
    ELSE {}

\* lines 95-98: the message of the first failing check, {} when both pass
ProductError(price, stock) ==
    IF price <= 0 THEN {"Price must be positive"}
    ELSE IF stock < 0 THEN {"Stock cannot be negative"}
    ELSE {}

CreateProduct(p) ==
    /\ call[p].pc = "start"
    /\ call[p].op = "CreateProduct"
    /\ LET a     == call[p].args
           stock == StockOrDefault(a.stock)
           err   == ProductError(a.price, stock)
       IN  IF err # {}
           THEN /\ Finish(p, Failure(Given(err)))
                /\ UNCHANGED products
           ELSE \E fault \in BOOLEAN :
                   IF fault
                   THEN /\ Finish(p, Raised("DatabaseError"))
                        /\ UNCHANGED products
                   ELSE /\ products' = Append(products,
                               [name |-> a.name, price |-> a.price, stock |-> stock])
                        /\ Finish(p, Success("Product created successfully", Len(products) + 1))
    /\ UNCHANGED <<customers, orders, uniqueEmail>>

(***************************************************************************)
(* CreateOrder.mutate                                                      *)
(***************************************************************************)
\* datetime.now()
Now == "now"

IdLists == UNION {[1..n -> 1..(MaxProducts + 1)] : n \in 0..MaxIds}

OrderInputs ==
    [customer_id : 1..(Cardinality(GoodEmails) + 1), product_ids : IdLists,
     order_date : Opt({"2024-05-01"})]

SubmitCreateOrder(p) ==
    /\ Len(orders) < MaxOrders
    /\ \E a \in OrderInputs : Begin(p, "CreateOrder", a)

\* Customer.objects.get(pk=customer_id) finds a row
CustomerFound(pk) == pk \in 1..Len(customers)

\* Product.objects.filter(id__in=product_ids): the rows whose id is in the list
Resolve(ids) == {i \in 1..Len(products) : \E k \in 1..Len(ids) : ids[k] = i}

\* sum(set(product.price for product in products)): equal prices counted once
TotalDistinctPrices(pks) ==
    LET prices == {products[i].price : i \in pks}
        SumOf[S \in SUBSET prices] ==
            IF S = {} THEN 0 ELSE LET x == CHOOSE x \in S : TRUE IN x + SumOf[S \ {x}]
    IN  SumOf[prices]

\* sum([product.price for product in products])
RECURSIVE Total(_)
Total(pks) ==
    IF pks = {}
    THEN 0
    ELSE LET i == CHOOSE i \in pks : TRUE
         IN  products[i].price + Total(pks \ {i})

\* lines 119-128, the checks in the order products, customer
OrderErrorProductsFirst(a) ==
    IF a.product_ids = <<>> THEN {"No products selected"}
    ELSE IF Cardinality(Resolve(a.product_ids)) # Len(a.product_ids) THEN {"Invalid product ID(s)"}
    ELSE IF ~CustomerFound(a.customer_id) THEN {"Customer not found"}
    ELSE {}

\* lines 119-128, the count compared with the number of distinct requested ids
OrderErrorSetBased(a) ==
    IF ~CustomerFound(a.customer_id) THEN {"Customer not found"}
    ELSE IF a.product_ids = <<>> THEN {"No products selected"}
    ELSE IF Cardinality(Resolve(a.product_ids))
              # Cardinality({a.product_ids[k] : k \in 1..Len(a.product_ids)})
    THEN {"Invalid product ID(s)"}
    ELSE {}

\* lines 119-128: the message of the first failing check, {} when all pass
OrderError(a) ==
    IF ~CustomerFound(a.customer_id) THEN {"Customer not found"}
    ELSE IF a.product_ids = <<>> THEN {"No products selected"}
    ELSE IF Cardinality(Resolve(a.product_ids)) # Len(a.product_ids) THEN {"Invalid product ID(s)"}
    ELSE {}

\* lines 130-136: the row of Order.objects.create, before products.set
OrderRow(a) ==
    [customer |-> a.customer_id,
     order_date |-> IF a.order_date = {} THEN Now ELSE Given(a.order_date),
     total_amount |-> Total(Resolve(a.product_ids)),
     products |-> {}]

\* the store operations of lines 119-137, in program order
OrderFaults == {"none", "get", "filter", "create", "set"}

\* does the call get as far as the store operation?
Reaches(fault, a, err) ==
    \/ fault = "get"
    \/ fault = "filter" /\ CustomerFound(a.customer_id) /\ a.product_ids # <<>>
    \/ fault \in {"create", "set"} /\ err = {}

\* lines 117-138; a store error leaves mutate(); the two writes (create,
\* products.set) are not in one transaction, so a store error at the second
\* leaves the order without products
CreateOrder(p) ==
    /\ call[p].pc = "start"
    /\ call[p].op = "CreateOrder"
    /\ LET a   == call[p].args
           err == OrderError(a)
       IN  \E fault \in OrderFaults :
              IF Reaches(fault, a, err)
              THEN /\ Finish(p, Raised("DatabaseError"))
                   /\ orders' = IF fault = "set" THEN Append(orders, OrderRow(a)) ELSE orders
              ELSE IF err # {}
              THEN /\ Finish(p, Failure(Given(err)))
                   /\ UNCHANGED orders
              ELSE /\ fault = "none"
                   /\ orders' = Append(orders,
                          [OrderRow(a) EXCEPT !.products = Resolve(a.product_ids)])
                   /\ Finish(p, Success("Order created successfully", Len(orders) + 1))
    /\ UNCHANGED <<customers, products, uniqueEmail>>

Init ==
    /\ customers = <<>>
    /\ products = <<>>
    /\ orders = <<>>
    /\ uniqueEmail \in BOOLEAN
    /\ call = [p \in Procs |-> Idle]

NextRace ==
    \E p \in Procs :
        \/ SubmitCreateCustomer(p, {<<>>})
        \/ CreateCustomerCheck(p)
        \/ CreateCustomerSave(p)
        \/ Return(p)

SpecRace == Init /\ [][NextRace]_vars

\* one call at a time, each run to completion
NextCustomers ==
    \E p \in Procs :
        \/ AllIdle /\ SubmitCreateCustomer(p, PhoneSamples)
        \/ AllIdle /\ SubmitBulkCreateCustomers(p)
        \/ CreateCustomerCheck(p)
        \/ CreateCustomerSave(p)
        \/ BulkValidate(p)
        \/ BulkInsert(p)
        \/ BulkCommit(p)
        \/ Return(p)

SpecCustomers == Init /\ [][NextCustomers]_vars

NextProducts ==
    \E p \in Procs :
        \/ AllIdle /\ SubmitCreateProduct(p)
        \/ CreateProduct(p)
        \/ Return(p)

SpecProducts == Init /\ [][NextProducts]_vars

\* the customers and products that earlier calls have left in the store
SeedCustomer(email) == [name |-> "Ann", email |-> email, phone |-> <<>>]

SeedCustomers == {<<>>, <<SeedCustomer("ann@x.io")>>,
                  <<SeedCustomer("ann@x.io"), SeedCustomer("bob@x.io")>>}

SeedProducts ==
    UNION {[1..n -> [name : ProductNames, price : GoodPrices, stock : {0}]] : n \in 0..MaxProducts}

InitOrders ==
    /\ customers \in SeedCustomers
    /\ products \in SeedProducts
    /\ orders = <<>>
    /\ uniqueEmail = TRUE
    /\ call = [p \in Procs |-> Idle]

NextOrders ==
    \E p \in Procs :
        \/ AllIdle /\ SubmitCreateOrder(p)
        \/ CreateOrder(p)
        \/ Return(p)

SpecOrders == InitOrders /\ [][NextOrders]_vars

(***************************************************************************)
(* Properties.                                                             *)
(***************************************************************************)
\* the step in which client p's call of op ends
Ends(p, op) == call[p].op = op /\ call[p].pc # "done" /\ call'[p].pc = "done"

Ended(p, op) == call[p].op = op /\ call[p].pc = "done"

Returned(p, op) == Ended(p, op) /\ call[p].out.outcome = "returned"

\* the result of a call in which a store operation failed
StoreDown == Raised("DatabaseError")

CustomerReasons == {"Invalid email format", "Email already exists", "Invalid phone format"}

\* C1: after any sequence of CreateCustomer and BulkCreateCustomers calls, each
\* run to completion from an empty store, no two persisted customers have the
\* same email.
C1_UniqueEmails ==
    \A i, j \in 1..Len(customers) : i # j => customers[i].email # customers[j].email

\* exactly one of (customer populated, success=true) and
\* (customer empty, success=false, message=reason)
C2_Shape(out) ==
    /\ out.outcome = "returned"
    /\ \/ out.success /\ out.entity # {}
       \/ ~out.success /\ out.entity = {} /\ out.message \in CustomerReasons

\* C2 as claimed: every CreateCustomer call, also one whose store write faults,
\* returns one of the two result shapes and never raises.
C2_NeverRaises ==
    \A p \in Procs : Ended(p, "CreateCustomer") => C2_Shape(call[p].out)

\* C2: a CreateCustomer call returns one of the two result shapes, unless a
\* store operation (the existence query or customer.save()) fails: then the
\* store's error is raised to the caller and no customer is persisted.  An
\* invalid email never raises.
C2_RaisesOnlyFromSave ==
    [][\A p \in Procs :
          Ends(p, "CreateCustomer") =>
              \/ C2_Shape(call'[p].out)
              \/ /\ call'[p].out.outcome = "raised"
                 /\ call'[p].out.error \in StoreErrors
                 /\ ValidEmail(call[p].args.email)
                 /\ customers' = customers]_vars

C2_Witness ==
    \E p \in Procs :
        /\ Ended(p, "CreateCustomer")
        /\ call[p].out = Raised("DatabaseError")
        /\ ~BadPhone(call[p].args.phone)
        /\ ~EmailExists(customers, call[p].args.email)

\* a record fails one of the three checks against the customers persisted
\* before the call
C3_Fails(c, table) ==
    ~ValidEmail(c.email) \/ EmailExists(table, c.email) \/ BadPhone(c.phone)

\* the k-th smallest element of a set of numbers
C3_Nth(S, k) == CHOOSE x \in S : Cardinality({y \in S : y < x}) = k - 1

C3_StartsWith(line, email) == \E m \in CustomerReasons : line = email \o ": " \o m

\* C3: a BulkCreateCustomers call with N records of which M fail a check returns
\* N-M created customers and M error strings; the k-th error string starts with
\* the email of the k-th failing record, and the created customers are the
\* passing records in input order (no record is lost after a failing one).
C3_BulkCounts ==
    \A p \in Procs :
        Returned(p, "BulkCreateCustomers") =>
            LET batch == call[p].args.customers
                out   == call[p].out
                table == SubSeq(customers, 1, call[p].loc.base)
                bad   == {k \in 1..Len(batch) : C3_Fails(batch[k], table)}
                good  == (1..Len(batch)) \ bad
            IN  /\ Len(out.created_customers) = Len(batch) - Cardinality(bad)
                /\ Len(out.errors) = Cardinality(bad)
                /\ \A k \in 1..Cardinality(bad) :
                      C3_StartsWith(out.errors[k], batch[C3_Nth(bad, k)].email)
                /\ \A k \in 1..Cardinality(good) :
                      out.created_customers[k] = CustomerRow(batch[C3_Nth(good, k)])

C3_Witness ==
    \E p \in Procs :
        /\ Returned(p, "BulkCreateCustomers")
        /\ Len(call[p].args.customers) >= 2
        /\ LET table == SubSeq(customers, 1, call[p].loc.base)
           IN  /\ C3_Fails(call[p].args.customers[1], table)
               /\ ~C3_Fails(call[p].args.customers[2], table)

\* C4: while and after one BulkCreateCustomers call writes its batch, the store
\* holds, beyond the rows it held when the call began, either all the records
\* the call accepted or none of them; none when the write faulted, all when
\* the call returned.
C4_AllOrNothing ==
    \A p \in Procs :
        (call[p].op = "BulkCreateCustomers" /\ call[p].pc \in {"write", "done"}) =>
            LET l     == call[p].loc
                added == SubSeq(customers, l.base + 1, Len(customers))
            IN  /\ Len(customers) >= l.base
                /\ added = <<>> \/ added = l.created
                /\ (call[p].pc = "done" /\ call[p].out.outcome = "raised") => added = <<>>
                /\ (call[p].pc = "done" /\ call[p].out.outcome = "returned") => added = l.created

C4_Witness ==
    \E p \in Procs :
        /\ call[p].op = "BulkCreateCustomers"
        /\ call[p].pc = "write"
        /\ Len(call[p].loc.tx) > 0
        /\ Len(call[p].loc.tx) < Len(call[p].loc.created)

\* C5: CreateOrder with a customer_id absent from the store returns
\* success=false, "Customer not found", whatever product_ids holds; with an
\* existing customer and empty product_ids it returns success=false,
\* "No products selected"; neither creates an order.  (A call in which the
\* store fails raises the store's error instead of returning.)
C5_CheckOrder ==
    [][\A p \in Procs :
          Ends(p, "CreateOrder") =>
              LET a == call[p].args
              IN  /\ ~CustomerFound(a.customer_id) =>
                        /\ call'[p].out \in {Failure("Customer not found"), StoreDown}
                        /\ orders' = orders
                  /\ (CustomerFound(a.customer_id) /\ a.product_ids = <<>>) =>
                        /\ call'[p].out \in {Failure("No products selected"), StoreDown}
                        /\ orders' = orders]_vars

C5_Witness ==
    \E p \in Procs :
        /\ Returned(p, "CreateOrder")
        /\ ~CustomerFound(call[p].args.customer_id)
        /\ call[p].args.product_ids = <<>>
        /\ call[p].out.message = "Customer not found"

C6_Distinct(ids) == \A j, k \in 1..Len(ids) : j # k => ids[j] # ids[k]

C6_Pre(a) ==
    /\ CustomerFound(a.customer_id)
    /\ a.product_ids # <<>>
    /\ C6_Distinct(a.product_ids)
    /\ \A k \in 1..Len(a.product_ids) : a.product_ids[k] \in 1..Len(products)

\* the prices of the listed products, added up along the list
RECURSIVE C6_SumAlong(_)
C6_SumAlong(ids) ==
    IF ids = <<>> THEN 0 ELSE products[Head(ids)].price + C6_SumAlong(Tail(ids))

\* C6: CreateOrder for an existing customer and a non-empty list of pairwise
\* distinct ids of existing products, when the store does not fault, returns
\* success=true and appends exactly one order: its customer is that customer,
\* its total_amount the sum of those products' prices, its products exactly
\* those products.
C6_OrderCreated ==
    [][\A p \in Procs :
          (Ends(p, "CreateOrder") /\ C6_Pre(call[p].args)) =>
              LET a == call[p].args
                  n == Len(orders) + 1
              IN  \/ call'[p].out = StoreDown
                  \/ /\ call'[p].out = Success("Order created successfully", n)
                     /\ Len(orders') = n
                     /\ SubSeq(orders', 1, Len(orders)) = orders
                     /\ orders'[n].customer = a.customer_id
                     /\ orders'[n].total_amount = C6_SumAlong(a.product_ids)
                     /\ orders'[n].products = {a.product_ids[k] : k \in 1..Len(a.product_ids)}
                     /\ orders'[n].order_date =
                            (IF a.order_date = {} THEN Now ELSE Given(a.order_date))]_vars

C6_Witness ==
    \E p \in Procs :
        /\ Returned(p, "CreateOrder")
        /\ call[p].out.success
        /\ Len(call[p].args.product_ids) >= 2
        /\ orders[Len(orders)].total_amount > products[call[p].args.product_ids[1]].price

\* the claim's two patterns, ^\+?\d{10,15}$ and ^\d{3}-\d{3}-\d{4}$
C7_Matches(s) == \E t \in DollarEnds(s) : MatchIntl(t) \/ MatchDashed(t)

C7_Pre(p) ==
    /\ call[p].op = "CreateCustomer"
    /\ call[p].pc = "start"
    /\ call'[p].pc # "start"
    /\ call[p].args.phone # {}
    /\ ~C7_Matches(Given(call[p].args.phone))
    /\ ValidEmail(call[p].args.email)
    /\ ~EmailExists(customers, call[p].args.email)

C7_Post(p) ==
    /\ call'[p].pc = "done"
    /\ call'[p].out \in {Failure("Invalid phone format"), StoreDown}
    /\ customers' = customers

\* C7 as claimed: every supplied phone string that matches neither pattern makes
\* CreateCustomer (email valid and not in the store) return success=false,
\* "Invalid phone format", and persist nothing.
C7_EveryNonMatching == [][\A p \in Procs : C7_Pre(p) => C7_Post(p)]_vars

\* C7: every supplied non-empty phone string that matches neither pattern makes
\* CreateCustomer (email valid and not in the store) return success=false,
\* "Invalid phone format", and persist nothing.  (A call whose existence
\* query fails raises the store's error instead.)
C7_NonEmptyNonMatching ==
    [][\A p \in Procs :
          (C7_Pre(p) /\ Given(call[p].args.phone) # <<>>) => C7_Post(p)]_vars

C7_Witness ==
    \E p \in Procs :
        /\ Returned(p, "CreateCustomer")
        /\ call[p].out.message = "Invalid phone format"
        /\ ValidEmail(call[p].args.email)
        /\ ~EmailExists(customers, call[p].args.email)
        /\ Len(Given(call[p].args.phone)) > MaxDigits

\* C8: CreateProduct checks price before stock: price <= 0 gives "Price must be
\* positive" also when stock is negative; price > 0 with stock < 0 gives "Stock
\* cannot be negative"; neither persists a product; otherwise, when the store
\* does not fault, exactly one product with the given name, price and stock (0
\* when omitted) is appended and "Product created successfully" is returned.
C8_ProductChecks ==
    [][\A p \in Procs :
          Ends(p, "CreateProduct") =>
              LET a     == call[p].args
                  stock == IF a.stock = {} THEN 0 ELSE Given(a.stock)
              IN  IF a.price <= 0
                  THEN call'[p].out = Failure("Price must be positive") /\ products' = products
                  ELSE IF stock < 0
                  THEN call'[p].out = Failure("Stock cannot be negative") /\ products' = products
                  ELSE \/ call'[p].out = StoreDown /\ products' = products
                       \/ /\ call'[p].out =
                                Success("Product created successfully", Len(products) + 1)
                          /\ products' = Append(products,
                                [name |-> a.name, price |-> a.price, stock |-> stock])]_vars

C8_Witness ==
    \E p \in Procs :
        /\ Returned(p, "CreateProduct")
        /\ call[p].args.price <= 0
        /\ call[p].args.stock = {-1}
        /\ call[p].out.message = "Price must be positive"

C9_HasRepeat(ids) == \E j, k \in 1..Len(ids) : j # k /\ ids[j] = ids[k]

\* C9: CreateOrder for an existing customer and a product_ids list in which some
\* id occurs more than once returns success=false, "Invalid product ID(s)" and
\* creates no order, also when every id in the list is the id of a product.
\* (A call in which the store fails raises the store's error instead.)
C9_RepeatRejected ==
    [][\A p \in Procs :
          (/\ Ends(p, "CreateOrder")
           /\ CustomerFound(call[p].args.customer_id)
           /\ C9_HasRepeat(call[p].args.product_ids)) =>
              /\ call'[p].out \in {Failure("Invalid product ID(s)"), StoreDown}
              /\ orders' = orders]_vars

C9_Witness ==
    \E p \in Procs :
        /\ Returned(p, "CreateOrder")
        /\ CustomerFound(call[p].args.customer_id)
        /\ C9_HasRepeat(call[p].args.product_ids)
        /\ \A k \in 1..Len(call[p].args.product_ids) :
              call[p].args.product_ids[k] \in 1..Len(products)
        /\ call[p].out.message = "Invalid product ID(s)"
        /\ orders = <<>>

C10_BothSucceeded(p, q) ==
    /\ p # q
    /\ Returned(p, "CreateCustomer") /\ call[p].out.success
    /\ Returned(q, "CreateCustomer") /\ call[q].out.success
    /\ call[p].args.email = call[q].args.email

\* C10: the existence check and the write of CreateCustomer are separate steps;
\* two concurrent calls with the same valid, not yet persisted email can both
\* pass the check before either writes, and when both have then returned
\* success=true the store has no unique index on email and holds two customers,
\* one per call, with that email.
C10_RaceDuplicates ==
    \A p, q \in Procs :
        C10_BothSucceeded(p, q) =>
            /\ ~uniqueEmail
            /\ call[p].out.entity # call[q].out.entity
            /\ \A pk \in call[p].out.entity \cup call[q].out.entity :
                  /\ pk \in 1..Len(customers)
                  /\ customers[pk].email = call[p].args.email

C10_Witness ==
    \E p, q \in Procs :
        /\ C10_BothSucceeded(p, q)
        /\ ~C1_UniqueEmails
====
